---- MODULE Spec2Model ----
(***************************************************************************)
(* A model of treeprng.py (switham/treeprng): the TreePRNG node with its   *)
(* three-state life cycle, the key canonicalizer pickle_key /              *)
(* pickle_key_massage, and the random.Random generator a node turns into.  *)
(*                                                                         *)
(* Python objects that the code handles by reference (hashlib hash         *)
(* objects, random.Random instances, TreePRNG instances) live in heaps     *)
(* (sequences indexed by object id), so that copy() versus aliasing is     *)
(* visible.  Python's None is the id 0.  The code is Python 2 (long,       *)
(* cPickle with pickle as the fallback); assert statements are executed    *)
(* (no -O).  The library calls the code makes (pickle.dumps, hashlib,      *)
(* random.Random) are modelled by what CPython 2.7 does.                   *)
(***************************************************************************)
EXTENDS Integers, Sequences, FiniteSets, TLC

(***************************************************************************)
(* Bounds of the model.                                                    *)
(***************************************************************************)
MaxNodes == 3
MaxRoots == 1
MaxDraws == 2
MaxTreeNodes == 5
MaxTreeRoots == 2
MaxTreeDraws == 1
MaxKeyLen == 2
MaxKeyDepth == 2
MaxBitNodes == 2
MaxBitDraws == 2
MaxBits == 3
MaxThreads == 2
MaxThreadNodes == 4

(***************************************************************************)
(* Python values used as seeds and keys.  One record shape for all types:  *)
(* num/den is the numeric value (den = 0: a non-finite float, num = 1 for  *)
(* inf, -1 for -inf, 0 for nan), str the text, items the elements.         *)
(***************************************************************************)
PyNone == [type |-> "NoneType", num |-> 0, den |-> 1, str |-> "", items |-> <<>>]
PyBool(b) == [type |-> "bool", num |-> IF b THEN 1 ELSE 0, den |-> 1, str |-> "", items |-> <<>>]
PyInt(n) == [type |-> "int", num |-> n, den |-> 1, str |-> "", items |-> <<>>]
PyLong(n) == [type |-> "long", num |-> n, den |-> 1, str |-> "", items |-> <<>>]
PyFloat(n, d) == [type |-> "float", num |-> n, den |-> d, str |-> "", items |-> <<>>]
PyStr(s) == [type |-> "str", num |-> 0, den |-> 1, str |-> s, items |-> <<>>]
PyList(xs) == [type |-> "list", num |-> 0, den |-> 1, str |-> "", items |-> xs]
PyTuple(xs) == [type |-> "tuple", num |-> 0, den |-> 1, str |-> "", items |-> xs]
\* An exception propagating out of an expression, as a value.
PyRaise(e) == [type |-> "raise", num |-> 0, den |-> 1, str |-> e, items |-> <<>>]

IsRaise(v) == v.type = "raise"

\* sys.maxint of the Python 2 build (64-bit builds have 2^63 - 1; every
\* number of the model is far below either).
MaxInt == 2147483647

\* int(x) of Python 2 for a float or a long: an int when it fits, else a
\* long; OverflowError for an infinity, ValueError for a nan.
PyIntOf(k) ==
    IF k.type = "float" /\ k.den = 0
    THEN IF k.num = 0 THEN PyRaise("ValueError") ELSE PyRaise("OverflowError")
    ELSE LET q == IF k.num >= 0 THEN k.num \div k.den ELSE -((-k.num) \div k.den)
         IN  IF q <= MaxInt /\ q >= -MaxInt - 1 THEN PyInt(q) ELSE PyLong(q)

\* k == int(k) for a finite float k.
FloatEqualsInt(k, i) == k.num = i.num * k.den

RECURSIVE pickle_key_massage(_)
MassageTail_raw(xs) == xs
MassageTail(xs) == [j \in 1..Len(xs) |-> pickle_key_massage(xs[j])]
\* The loop over a list or tuple: the first element whose massaged form is
\* another object ends the scan and rebuilds the sequence from there on.
RECURSIVE MassageScan(_, _)
MassageScan_noprefix(k, i) ==
    IF i > Len(k.items) THEN k
    ELSE LET x == k.items[i]
             y == pickle_key_massage(x)
         IN  IF IsRaise(y) THEN y
             ELSE IF y # x
             THEN LET rest == MassageTail(SubSeq(k.items, i + 1, Len(k.items)))
                      bad  == {j \in 1..Len(rest) : IsRaise(rest[j])}
                  IN  IF bad # {}
                      THEN rest[CHOOSE j \in bad : \A m \in bad : j <= m]
                      ELSE [k EXCEPT !.items = <<y>> \o rest]
             ELSE MassageScan(k, i + 1)
MassageScan(k, i) ==
    IF i > Len(k.items) THEN k
    ELSE LET x == k.items[i]
             y == pickle_key_massage(x)
         IN  IF IsRaise(y) THEN y
             ELSE IF y # x
             THEN LET rest == MassageTail(SubSeq(k.items, i + 1, Len(k.items)))
                      bad  == {j \in 1..Len(rest) : IsRaise(rest[j])}
                  IN  IF bad # {}
                      THEN rest[CHOOSE j \in bad : \A m \in bad : j <= m]
                      ELSE [k EXCEPT !.items =
                               SubSeq(k.items, 1, i - 1) \o <<y>> \o rest]
             ELSE MassageScan(k, i + 1)

pickle_key_massage(k) ==
    IF k.type \in {"list", "tuple"} THEN MassageScan(k, 1)
    ELSE IF k.type = "float"
    THEN LET i == PyIntOf(k)
         IN  IF IsRaise(i) THEN i
             ELSE IF FloatEqualsInt(k, i) THEN i ELSE k
    ELSE IF k.type = "long" THEN PyIntOf(k)
    ELSE k

(***************************************************************************)
(* pickle.dumps(v, 2): the byte string, as a sequence of 0..255.           *)
(***************************************************************************)
RECURSIVE Pow256(_)
Pow256(n) == IF n = 0 THEN 1 ELSE 256 * Pow256(n - 1)

\* n (0 <= n < 256^w) little-endian in w bytes.
RECURSIVE LittleEndian(_, _)
LittleEndian(n, w) ==
    IF w = 0 THEN <<>> ELSE <<n % 256>> \o LittleEndian(n \div 256, w - 1)

\* pickle.encode_long: minimal two's complement, little-endian; 0L is empty.
RECURSIVE LongWidth(_, _)
LongWidth(n, w) ==
    IF w = 3 \/ (n < Pow256(w) \div 2 /\ n >= -(Pow256(w) \div 2)) THEN w
    ELSE LongWidth(n, w + 1)
\* n in w bytes, two's complement, little-endian.
TwosComplement(n, w) ==
    IF n >= 0 THEN LittleEndian(n, w)
    ELSE [i \in 1..w |-> 255 - LittleEndian(-n - 1, w)[i]]
encode_long(n) ==
    IF n = 0 THEN <<>> ELSE TwosComplement(n, LongWidth(n, 1))

\* struct.pack('>d', x) for the floats of the model.
FloatBytes(k) ==
    CASE k.den = 0 /\ k.num = 1  -> <<127, 240, 0, 0, 0, 0, 0, 0>>
      [] k.den = 0 /\ k.num = -1 -> <<255, 240, 0, 0, 0, 0, 0, 0>>
      [] k.den = 0 /\ k.num = 0  -> <<127, 248, 0, 0, 0, 0, 0, 0>>
      [] k.den = 1 /\ k.num = 0  -> <<0, 0, 0, 0, 0, 0, 0, 0>>
      [] k.den = 1 /\ k.num = 1  -> <<63, 240, 0, 0, 0, 0, 0, 0>>
      [] k.den = 1 /\ k.num = 2  -> <<64, 0, 0, 0, 0, 0, 0, 0>>
      [] k.den = 1 /\ k.num = 3  -> <<64, 8, 0, 0, 0, 0, 0, 0>>
      [] k.den = 2 /\ k.num = 1  -> <<63, 224, 0, 0, 0, 0, 0, 0>>
      [] k.den = 2 /\ k.num = 3  -> <<63, 248, 0, 0, 0, 0, 0, 0>>
      [] k.den = 2 /\ k.num = 5  -> <<64, 4, 0, 0, 0, 0, 0, 0>>
      [] OTHER -> <<127, 248, 0, 0, 0, 0, 0, 1>>

\* The characters of the strings of the model.
StrBytes(s) ==
    CASE s = ""   -> <<>>
      [] s = "a"  -> <<97>>
      [] s = "b"  -> <<98>>
      [] s = "c"  -> <<99>>
      [] s = "T"  -> <<84>>
      [] s = "ab" -> <<97, 98>>
      [] OTHER    -> <<63>>

\* The number of str objects in a value.
RECURSIVE StrCount(_)
RECURSIVE StrCountItems(_, _)
StrCountItems(xs, i) ==
    IF i > Len(xs) THEN 0 ELSE StrCount(xs[i]) + StrCountItems(xs, i + 1)
StrCount(v) ==
    IF v.type = "str" THEN 1
    ELSE IF v.type \in {"list", "tuple"} THEN StrCountItems(v.items, 1)
    ELSE 0

\* Whether the pickler memoizes (BINPUT) a str, a tuple or an empty list: v
\* is the object, o the object at its place in the key the caller passed to
\* pickle_key, held tells that the pickler itself holds a second reference
\* (the items of a list come from an iterator, those of a tuple are
\* borrowed).  pickle.py memoizes every object; cPickle only an object with a
\* reference count of 2 or more, which an object that pickle_key_massage
\* built (v # o) does not have unless held, and never a str of fewer than
\* two characters.  The objects of the caller's key are referenced by the
\* caller as well as by their container.
put(module, v, o, held) ==
    \/ module = "pickle"
    \/ /\ v = o \/ held
       /\ v.type = "str" => Len(StrBytes(v.str)) >= 2

\* The index written after BINPUT when memo objects are in the memo.
memo_index(module, memo) == IF module = "cPickle" THEN memo + 1 ELSE memo

\* save(v) with memo objects in the memo: [out |-> bytes, memo |-> objects
\* in the memo afterwards].  No object occurs twice in a key (no BINGET).
RECURSIVE Save(_, _, _, _, _)
RECURSIVE SaveItems(_, _, _, _, _, _)
SaveItems(module, xs, os, i, memo, held) ==
    IF i > Len(xs) THEN [out |-> <<>>, memo |-> memo]
    ELSE LET a == Save(module, xs[i], os[i], memo, held)
             b == SaveItems(module, xs, os, i + 1, a.memo, held)
         IN  [out |-> a.out \o b.out, memo |-> b.memo]

Save(module, v, o, memo, held) ==
    CASE v.type = "NoneType" -> [out |-> <<78>>, memo |-> memo]
      [] v.type = "bool" -> [out |-> IF v.num = 1 THEN <<136>> ELSE <<137>>, memo |-> memo]
      [] v.type = "int" ->
            [out |-> IF v.num >= 0 /\ v.num <= 255 THEN <<75, v.num>>
                     ELSE IF v.num >= 0 /\ v.num <= 65535
                     THEN <<77>> \o LittleEndian(v.num, 2)
                     ELSE <<74>> \o TwosComplement(v.num, 4),
             memo |-> memo]
      [] v.type = "long" ->
            LET b == encode_long(v.num)
            IN  [out |-> <<138, Len(b)>> \o b, memo |-> memo]
      [] v.type = "float" -> [out |-> <<71>> \o FloatBytes(v), memo |-> memo]
      [] v.type = "str" ->
            LET b == StrBytes(v.str)
            IN  IF put(module, v, o, held)
                THEN [out |-> <<85, Len(b)>> \o b \o <<113, memo_index(module, memo)>>,
                      memo |-> memo + 1]
                ELSE [out |-> <<85, Len(b)>> \o b, memo |-> memo]
      [] v.type = "tuple" ->
            IF Len(v.items) = 0 THEN [out |-> <<41>>, memo |-> memo]
            ELSE LET a == SaveItems(module, v.items, o.items, 1, memo, FALSE)
                     c == IF Len(v.items) <= 3
                          THEN a.out \o <<132 + Len(v.items)>>
                          ELSE <<40>> \o a.out \o <<116>>
                 IN  IF put(module, v, o, held)
                     THEN [out |-> c \o <<113, memo_index(module, a.memo)>>,
                           memo |-> a.memo + 1]
                     ELSE [out |-> c, memo |-> a.memo]
      [] v.type = "list" ->
            IF Len(v.items) = 0
            THEN IF put(module, v, o, held)
                 THEN [out |-> <<93, 113, memo_index(module, memo)>>, memo |-> memo + 1]
                 ELSE [out |-> <<93>>, memo |-> memo]
            ELSE LET a == SaveItems(module, v.items, o.items, 1, memo + 1, TRUE)
                 IN  [out |-> <<93, 113, memo_index(module, memo)>> \o
                              (IF Len(v.items) = 1 THEN a.out \o <<97>>
                               ELSE <<40>> \o a.out \o <<101>>),
                      memo |-> a.memo]
      [] OTHER -> [out |-> <<>>, memo |-> memo]

\* module.dumps(v, 2), where v is pickle_key_massage(k) and the only
\* reference to v, if v is not k itself, is the argument of the call.
PickleDumps2(module, v, k) == <<128, 2>> \o Save(module, v, k, 0, FALSE).out \o <<46>>

\* The module bound to the name pickle by the import (lines 21-24): cPickle
\* where the build has it, else pickle.
PickleModules == {"cPickle", "pickle"}

(***************************************************************************)
(* Inputs of the operations.                                               *)
(***************************************************************************)
\* Seeds and keys that pickle_key accepts (3.0 is massaged to 3), and an
\* infinity, on which it raises.
Seeds == {PyStr("T"), PyFloat(1, 0)}
Keys == {PyStr("a"), PyFloat(3, 1), PyFloat(1, 0)}
\* The methods of random.Random that __getattr__ can reach (seed, getstate,
\* setstate and jumpahead are found on TreePRNG itself and never get there).
RandomMethods == {"random"}
\* Attribute names asked of a node: the Random methods and sequence, which
\* neither TreePRNG nor random.Random defines.
Attrs == RandomMethods \cup {"sequence"}

None == 0

\* The two assertion messages and the exception of the disabled methods,
\* under the names the specification gives these failures.
UsedAfterSpent == "AssertionError: Can't be a dict--already used as a PRNG."
UsedAsDictAfterCommit == "AssertionError: Can't be a PRNG--already used as a dict."
UnsupportedOperation == "NotImplementedError"

(***************************************************************************)
(* State.                                                                  *)
(*   nodes   the TreePRNG instances: hash and prng are object ids or None  *)
(*   hashes  the hashlib objects: algorithm name and the bytes absorbed    *)
(*   prngs   the random.Random instances: seed and the calls made so far   *)
(*   ret     the outcome of the last call: the operation, the life-cycle   *)
(*           state of its node before the call, the exception ("" if none) *)
(*   pickle  the module that the import at the top bound to this name      *)
(*   canon   a call of pickle_key_massage and pickle_key made directly: the *)
(*           key passed and what came back                                 *)
(*   threads the calls of __getitem__ that threads are in the middle of    *)
(*   hist    history: per node, how it was made (seed, index, state), its  *)
(*           parent and key, the address (hash name, seed, keys) it was    *)
(*           derived by, and the values its draws returned                 *)
(***************************************************************************)
VARIABLES nodes, hashes, prngs, ret, hist, pickle, canon, threads
vars == <<nodes, hashes, prngs, ret, hist, pickle, canon, threads>>

\* pickle_key(k): the bytes, or the exception of pickle_key_massage.
pickle_key(k) ==
    LET m == pickle_key_massage(k)
    IN  IF IsRaise(m) THEN [exc |-> m.str, bytes |-> <<>>]
        ELSE [exc |-> "", bytes |-> PickleDumps2(pickle, m, k)]

\* "self.prng" as a truth value (lines 165, 178, 186, 195).  Here and below,
\* a definition named after another with a suffix is a faulty variant of it,
\* which the properties must tell from the original.
is_prng_never(self) == FALSE
is_prng(self) == self.prng # None

\* The life-cycle state of a node record, read off its fields.
LifecycleState(self) ==
    IF self.prng # None /\ self.is_dict THEN "Dict+Spent"
    ELSE IF self.prng # None THEN "Spent"
    ELSE IF self.is_dict THEN "Dict"
    ELSE "Uncommitted"

Result(op, pre, exc) == [op |-> op, pre |-> pre, exc |-> exc]

\* hashlib: new(name), update(bytes), hexdigest().  A digest is the pair of
\* the algorithm and the message absorbed.
hashlib_new(name) == [name |-> name, data |-> <<>>]
hash_update(h, bytes) == [h EXCEPT !.data = @ \o bytes]
hexdigest(h) == [name |-> h.name, data |-> h.data]

\* new_hash = self.hash.copy(); new_hash.update(bytes): the heap after it
\* and the id of new_hash.
copy_update_alias(h, bytes) ==
    [heap |-> [hashes EXCEPT ![h] = hash_update(@, bytes)], id |-> h]
copy_update(h, bytes) ==
    [heap |-> Append(hashes, hash_update(hashes[h], bytes)), id |-> Len(hashes) + 1]

\* random.Random(seed), and a call of one of its methods: the value
\* returned is determined by the seed and the calls so far.  index counts
\* the 32-bit words taken from the generator's output stream; random()
\* takes two.
Random_unseeded(seed) ==
    [seed |-> [name |-> "urandom", data |-> <<Len(prngs)>>], calls |-> <<>>, index |-> 0]
Random(seed) == [seed |-> seed, calls |-> <<>>, index |-> 0]
RandomCall(rng, attr) ==
    [seed |-> rng.seed, calls |-> Append(rng.calls, attr), index |-> rng.index + 2]

\* The width of a word of the output stream.
WordBits == 32

\* random.Random.getrandbits(k): ValueError unless k > 0; else one word per
\* 32 bits asked for, assembled low word first, the last word shifted right
\* to keep its top bits.  A bit of the result is named by the word of the
\* stream and the position in that word it is copied from (bits[1] is the
\* lowest bit of the result).
Random_getrandbits(rng, k) ==
    IF k <= 0 THEN [exc |-> "ValueError", rng |-> rng, bits |-> <<>>]
    ELSE LET words == (k - 1) \div WordBits + 1
         IN  [exc |-> "",
              rng |-> [rng EXCEPT !.calls = Append(@, "getrandbits"),
                                  !.index = @ + words],
              bits |-> [p \in 1..k |->
                          LET j    == (p - 1) \div WordBits
                              left == k - j * WordBits
                              low  == IF left < WordBits THEN WordBits - left ELSE 0
                          IN  [word |-> rng.index + j,
                               bit |-> low + ((p - 1) % WordBits)]]]

\* __become_prng on a node record: the exception ("" if none), the record
\* after it, and the generator created.
become_prng_noassert(self) ==
    IF self.hash = None
    THEN [exc |-> "AttributeError", self |-> self, rng |-> <<>>]
    ELSE [exc |-> "",
          self |-> [self EXCEPT !.prng = Len(prngs) + 1, !.hash = None],
          rng |-> <<Random(hexdigest(hashes[self.hash]))>>]
become_prng_keephash(self) ==
    IF self.is_dict
    THEN [exc |-> UsedAsDictAfterCommit, self |-> self, rng |-> <<>>]
    ELSE IF self.hash = None
    THEN [exc |-> "AttributeError", self |-> self, rng |-> <<>>]
    ELSE [exc |-> "",
          self |-> [self EXCEPT !.prng = Len(prngs) + 1],
          rng |-> <<Random(hexdigest(hashes[self.hash]))>>]
become_prng(self) ==
    IF self.is_dict
    THEN [exc |-> UsedAsDictAfterCommit, self |-> self, rng |-> <<>>]
    ELSE IF self.hash = None
    THEN [exc |-> "AttributeError", self |-> self, rng |-> <<>>]
    ELSE [exc |-> "",
          self |-> [self EXCEPT !.prng = Len(prngs) + 1, !.hash = None],
          rng |-> <<Random(hexdigest(hashes[self.hash]))>>]

\* __become_dict on a node record.
become_dict_noop(self) ==
    IF is_prng(self)
    THEN [exc |-> UsedAfterSpent, self |-> self]
    ELSE [exc |-> "", self |-> self]
become_dict(self) ==
    IF is_prng(self)
    THEN [exc |-> UsedAfterSpent, self |-> self]
    ELSE [exc |-> "", self |-> [self EXCEPT !.is_dict = TRUE]]

\* __init__ with state given: the exception, the new node record, and the
\* generator created (with prng_state set into it).
init_state(state) ==
    LET s0 == [hash |-> state.hash, prng |-> None, is_dict |-> state.is_dict]
        p  == IF state.prng_state # <<>> THEN become_prng(s0)
              ELSE [exc |-> "", self |-> s0, rng |-> <<>>]
        d  == IF p.exc = "" /\ p.self.is_dict THEN become_dict(p.self)
              ELSE [exc |-> p.exc, self |-> p.self]
    IN  [exc |-> d.exc, self |-> d.self,
         rng |-> IF p.rng # <<>> THEN state.prng_state ELSE <<>>]

\* No direct call of the canonicalizer has been made.
NoCall == [k |-> PyNone, massaged |-> <<>>, again |-> <<>>, pickled |-> <<>>]

Init ==
    /\ nodes = <<>>
    /\ hashes = <<>>
    /\ prngs = <<>>
    /\ hist = <<>>
    /\ ret = Result("", "", "")
    /\ pickle \in PickleModules
    /\ canon = NoCall
    /\ threads = <<>>

History(how, parent, key, addr) ==
    [how |-> how, parent |-> parent, key |-> key, addr |-> addr, drawn |-> <<>>]

\* TreePRNG(seed, hashname)
TreePRNG(seed, hashname) ==
    /\ LET pk == pickle_key(seed)
       IN  IF pk.exc # ""
           THEN /\ ret' = Result("TreePRNG", "", pk.exc)
                /\ UNCHANGED <<nodes, hashes, hist>>
           ELSE /\ hashes' = Append(hashes, hash_update(hashlib_new(hashname), pk.bytes))
                /\ nodes' = Append(nodes, [hash |-> Len(hashes) + 1, prng |-> None,
                                           is_dict |-> FALSE])
                /\ hist' = Append(hist, History("seed", 0, PyNone,
                              [name |-> hashname, seed |-> seed, keys |-> <<>>]))
                /\ ret' = Result("TreePRNG", "", "")
    /\ UNCHANGED prngs

\* self.getstate(): the tuple returned.  The generator state is a copy, the
\* hash object is the node's own.
getstate(self) ==
    IF is_prng(self)
    THEN [hash |-> None, prng_state |-> <<prngs[self.prng]>>, is_dict |-> FALSE]
    ELSE [hash |-> self.hash, prng_state |-> <<>>, is_dict |-> self.is_dict]

\* TreePRNG(None, state=nodes[n].getstate()).  The tuple refers to a hash
\* object that is never updated once a node holds it, so what it builds does
\* not depend on how long the caller keeps it.
TreePRNGFromState(n) ==
    /\ n \in DOMAIN nodes
    /\ LET r == init_state(getstate(nodes[n]))
       IN  IF r.exc # ""
           THEN /\ ret' = Result("TreePRNG(state)", LifecycleState(nodes[n]), r.exc)
                /\ UNCHANGED <<nodes, prngs, hist>>
           ELSE /\ nodes' = Append(nodes, r.self)
                /\ prngs' = prngs \o r.rng
                /\ hist' = Append(hist, History("state", 0, PyNone, hist[n].addr))
                /\ ret' = Result("TreePRNG(state)", LifecycleState(nodes[n]), "")
    /\ UNCHANGED hashes

\* self[i]
getitem(n, i) ==
    /\ n \in DOMAIN nodes
    /\ LET self == nodes[n]
           pre  == LifecycleState(self)
           d    == IF is_prng(self) THEN [exc |-> UsedAfterSpent, self |-> self]
                   ELSE IF ~self.is_dict THEN become_dict(self)
                   ELSE [exc |-> "", self |-> self]
           pk   == pickle_key(i)
       IN  IF d.exc # ""
           THEN /\ ret' = Result("getitem", pre, d.exc)
                /\ UNCHANGED <<nodes, hashes, hist>>
           ELSE IF self.hash = None \/ pk.exc # ""
           THEN /\ nodes' = [nodes EXCEPT ![n] = d.self]
                /\ ret' = Result("getitem", pre,
                                 IF self.hash = None THEN "AttributeError" ELSE pk.exc)
                /\ UNCHANGED <<hashes, hist>>
           ELSE LET c == copy_update(self.hash, pk.bytes)
                    r == init_state([hash |-> c.id, prng_state |-> <<>>,
                                     is_dict |-> FALSE])
                IN  /\ hashes' = c.heap
                    /\ nodes' = Append([nodes EXCEPT ![n] = d.self], r.self)
                    /\ hist' = Append(hist, History("index", n, i,
                                  [hist[n].addr EXCEPT !.keys = Append(@, i)]))
                    /\ ret' = Result("getitem", pre, "")
    /\ UNCHANGED prngs

\* self.attr(...) for an attribute that reaches __getattr__
getattr(n, attr) ==
    /\ n \in DOMAIN nodes
    /\ LET self == nodes[n]
           pre  == LifecycleState(self)
           b    == IF ~is_prng(self) THEN become_prng(self)
                   ELSE [exc |-> "", self |-> self, rng |-> <<>>]
       IN  IF b.exc # ""
           THEN /\ ret' = Result(attr, pre, b.exc)
                /\ UNCHANGED <<nodes, prngs, hist>>
           ELSE LET heap == prngs \o b.rng
                    p    == b.self.prng
                IN  /\ nodes' = [nodes EXCEPT ![n] = b.self]
                    /\ IF attr \notin RandomMethods
                       THEN /\ prngs' = heap
                            /\ ret' = Result(attr, pre, "AttributeError")
                            /\ UNCHANGED hist
                       ELSE /\ prngs' = [heap EXCEPT ![p].calls = Append(@, attr)]
                            /\ hist' = [hist EXCEPT ![n].drawn =
                                           Append(@, RandomCall(heap[p], attr))]
                            /\ ret' = Result(attr, pre, "")
    /\ UNCHANGED hashes

\* self.getrandbits(k): __getattr__ returns the bound method of the
\* generator, which is then called with k
getrandbits(n, k) ==
    /\ n \in DOMAIN nodes
    /\ LET self == nodes[n]
           pre  == LifecycleState(self)
           b    == IF ~is_prng(self) THEN become_prng(self)
                   ELSE [exc |-> "", self |-> self, rng |-> <<>>]
       IN  IF b.exc # ""
           THEN /\ ret' = Result("getrandbits", pre, b.exc)
                /\ UNCHANGED <<nodes, prngs, hist>>
           ELSE LET heap == prngs \o b.rng
                    p    == b.self.prng
                    g    == Random_getrandbits(heap[p], k)
                IN  /\ nodes' = [nodes EXCEPT ![n] = b.self]
                    /\ prngs' = [heap EXCEPT ![p] = g.rng]
                    /\ ret' = Result("getrandbits", pre, g.exc)
                    /\ IF g.exc # "" THEN UNCHANGED hist
                       ELSE hist' = [hist EXCEPT ![n].drawn =
                                        Append(@, [seed |-> heap[p].seed, k |-> k,
                                                   bits |-> g.bits])]
    /\ UNCHANGED hashes

\* self.getstate() called and the tuple dropped
getstate_call_disabled(n) ==
    /\ n \in DOMAIN nodes
    /\ ret' = Result("getstate", LifecycleState(nodes[n]), UnsupportedOperation)
    /\ UNCHANGED <<nodes, hashes, prngs, hist>>
getstate_call(n) ==
    /\ n \in DOMAIN nodes
    /\ ret' = Result("getstate", LifecycleState(nodes[n]), "")
    /\ UNCHANGED <<nodes, hashes, prngs, hist>>

\* self.setstate(...)
setstate(n) ==
    /\ n \in DOMAIN nodes
    /\ ret' = Result("setstate", LifecycleState(nodes[n]), UnsupportedOperation)
    /\ UNCHANGED <<nodes, hashes, prngs, hist>>

\* self.seed(...)
seed_forwarded(n) ==
    /\ getattr(n, "random")
    /\ ret'.op = "random"
seed(n) ==
    /\ n \in DOMAIN nodes
    /\ ret' = Result("seed", LifecycleState(nodes[n]), UnsupportedOperation)
    /\ UNCHANGED <<nodes, hashes, prngs, hist>>

\* self.jumpahead(...)
jumpahead(n) ==
    /\ n \in DOMAIN nodes
    /\ ret' = Result("jumpahead", LifecycleState(nodes[n]), UnsupportedOperation)
    /\ UNCHANGED <<nodes, hashes, prngs, hist>>

\* The number of calls made on the generator of node n; the nodes made from
\* a seed.
Calls(n) == IF nodes[n].prng = None THEN 0 ELSE Len(prngs[nodes[n].prng].calls)
Roots == {n \in DOMAIN hist : hist[n].how = "seed"}

\* What a call on a node made by a single thread leaves alone.
others == <<pickle, canon, threads>>

Next ==
    \/ \E s \in Seeds :
          /\ Len(nodes) < MaxNodes /\ Cardinality(Roots) < MaxRoots
          /\ TreePRNG(s, "sha1") /\ UNCHANGED others
    \/ \E n \in DOMAIN nodes :
          /\ (Len(nodes) < MaxNodes \/ is_prng(nodes[n]))
          /\ TreePRNGFromState(n) /\ UNCHANGED others
    \/ \E n \in DOMAIN nodes, i \in Keys :
          Len(nodes) < MaxNodes /\ getitem(n, i) /\ UNCHANGED others
    \/ \E n \in DOMAIN nodes, a \in Attrs :
          Calls(n) < MaxDraws /\ getattr(n, a) /\ UNCHANGED others
    \/ \E n \in DOMAIN nodes : getstate_call(n) /\ UNCHANGED others
    \/ \E n \in DOMAIN nodes : setstate(n) /\ UNCHANGED others
    \/ \E n \in DOMAIN nodes : seed(n) /\ UNCHANGED others
    \/ \E n \in DOMAIN nodes : jumpahead(n) /\ UNCHANGED others

Spec == Init /\ [][Next]_vars

\* Trees only: nodes made from seeds and by indexing, each drawn from with
\* random(), under bounds that leave room for two trees or four siblings.
HashNames == {"sha1", "sha256"}
TreeSeeds == {PyStr("T"), PyFloat(3, 1)}
TreeKeys == {PyStr("a"), PyFloat(3, 1)}
TreeNext ==
    \/ \E s \in TreeSeeds, h \in HashNames :
          /\ Len(nodes) < MaxTreeNodes
          /\ Cardinality(Roots) < MaxTreeRoots
          /\ TreePRNG(s, h) /\ UNCHANGED others
    \/ \E n \in DOMAIN nodes, i \in TreeKeys :
          Len(nodes) < MaxTreeNodes /\ getitem(n, i) /\ UNCHANGED others
    \/ \E n \in DOMAIN nodes :
          Calls(n) < MaxTreeDraws /\ getattr(n, "random") /\ UNCHANGED others

TreeSpec == Init /\ [][TreeNext]_vars

\* Bits drawn, in one call or in several, from the generators of nodes made
\* from the same seed.
BitCounts == 0..MaxBits
BitsNext ==
    \/ /\ Len(nodes) < MaxBitNodes
       /\ TreePRNG(PyStr("T"), "sha1") /\ UNCHANGED others
    \/ \E n \in DOMAIN nodes, k \in BitCounts :
          /\ Len(hist[n].drawn) < MaxBitDraws
          /\ getrandbits(n, k) /\ UNCHANGED others

BitsSpec == Init /\ [][BitsNext]_vars

(***************************************************************************)
(* __getitem__ run by several threads, one line of lines 165-170 and       *)
(* 178-179 at a time.  A thread record holds the line it is at (pc), self  *)
(* (n), the key (i), its local new_hash, the life-cycle state of self when *)
(* the call began (pre), and of its last call the node returned (child)    *)
(* and the exception (exc).                                                *)
(***************************************************************************)
Idle == [pc |-> "idle", n |-> 0, i |-> PyNone, new_hash |-> None, pre |-> "",
         child |-> 0, exc |-> ""]
ThreadKeys == {PyStr("a"), PyFloat(3, 1), PyFloat(1, 0)}

\* The call ends: with an exception, or returning node c.
Raise(t, e) == [threads EXCEPT ![t] = [@ EXCEPT !.pc = "idle", !.exc = e]]
Return(t, c) == [threads EXCEPT ![t] = [@ EXCEPT !.pc = "idle", !.child = c]]
Goto(t, line) == [threads EXCEPT ![t].pc = line]

\* self.hash.copy(): the heap after it and the id of the copy.
hash_copy_alias(h) == [heap |-> hashes, id |-> h]
hash_copy(h) == [heap |-> Append(hashes, hashes[h]), id |-> Len(hashes) + 1]

\* Thread t calls nodes[n][i].
Call(t, n, i) ==
    /\ threads[t].pc = "idle"
    /\ n \in DOMAIN nodes
    /\ threads' = [threads EXCEPT ![t] =
                      [Idle EXCEPT !.pc = "165", !.n = n, !.i = i,
                                   !.pre = LifecycleState(nodes[n])]]
    /\ UNCHANGED <<nodes, hashes, prngs, ret, hist, pickle, canon>>

\* assert not self.prng
Line165(t) ==
    /\ threads[t].pc = "165"
    /\ threads' = IF is_prng(nodes[threads[t].n]) THEN Raise(t, UsedAfterSpent)
                  ELSE Goto(t, "166")
    /\ UNCHANGED <<nodes, hashes, prngs, ret, hist, pickle, canon>>

\* if not self.is_dict: self.__become_dict()
Line166(t) ==
    /\ threads[t].pc = "166"
    /\ threads' = IF ~nodes[threads[t].n].is_dict THEN Goto(t, "178")
                  ELSE Goto(t, "168")
    /\ UNCHANGED <<nodes, hashes, prngs, ret, hist, pickle, canon>>

\* __become_dict: assert not self.prng
Line178(t) ==
    /\ threads[t].pc = "178"
    /\ threads' = IF is_prng(nodes[threads[t].n]) THEN Raise(t, UsedAfterSpent)
                  ELSE Goto(t, "179")
    /\ UNCHANGED <<nodes, hashes, prngs, ret, hist, pickle, canon>>

\* __become_dict: self.is_dict = True
Line179(t) ==
    /\ threads[t].pc = "179"
    /\ nodes' = [nodes EXCEPT ![threads[t].n].is_dict = TRUE]
    /\ threads' = Goto(t, "168")
    /\ UNCHANGED <<hashes, prngs, ret, hist, pickle, canon>>

\* new_hash = self.hash.copy()
Line168(t) ==
    /\ threads[t].pc = "168"
    /\ LET h == nodes[threads[t].n].hash
       IN  IF h = None
           THEN /\ threads' = Raise(t, "AttributeError")
                /\ UNCHANGED hashes
           ELSE LET c == hash_copy(h)
                IN  /\ hashes' = c.heap
                    /\ threads' = [threads EXCEPT ![t] =
                                      [@ EXCEPT !.pc = "169", !.new_hash = c.id]]
    /\ UNCHANGED <<nodes, prngs, ret, hist, pickle, canon>>

\* new_hash.update(pickle_key(i))
Line169(t) ==
    /\ threads[t].pc = "169"
    /\ LET pk == pickle_key(threads[t].i)
       IN  IF pk.exc # ""
           THEN /\ threads' = Raise(t, pk.exc)
                /\ UNCHANGED hashes
           ELSE /\ hashes' = [hashes EXCEPT ![threads[t].new_hash] =
                                  hash_update(@, pk.bytes)]
                /\ threads' = Goto(t, "170")
    /\ UNCHANGED <<nodes, prngs, ret, hist, pickle, canon>>

\* return TreePRNG(None, state=(new_hash, None, False))
Line170(t) ==
    /\ threads[t].pc = "170"
    /\ LET r == init_state([hash |-> threads[t].new_hash, prng_state |-> <<>>,
                            is_dict |-> FALSE])
           n == threads[t].n
       IN  /\ nodes' = Append(nodes, r.self)
           /\ hist' = Append(hist, History("index", n, threads[t].i,
                         [hist[n].addr EXCEPT !.keys = Append(@, threads[t].i)]))
           /\ threads' = Return(t, Len(nodes) + 1)
    /\ UNCHANGED <<hashes, prngs, ret, pickle, canon>>

\* A step of thread t inside __getitem__.
ThreadStep(t) ==
    \/ Line165(t) \/ Line166(t) \/ Line178(t) \/ Line179(t)
    \/ Line168(t) \/ Line169(t) \/ Line170(t)

\* The calls in progress that have not copied the hash yet.
Pending == Cardinality({t \in DOMAIN threads : threads[t].pc \in {"165", "166", "178", "179", "168"}})

ThreadInit ==
    /\ nodes = <<>>
    /\ hashes = <<>>
    /\ prngs = <<>>
    /\ hist = <<>>
    /\ ret = Result("", "", "")
    /\ pickle \in PickleModules
    /\ canon = NoCall
    /\ threads = [t \in 1..MaxThreads |-> Idle]

ThreadNext ==
    \/ /\ Len(nodes) = 0 /\ TreePRNG(PyStr("T"), "sha1") /\ UNCHANGED others
    \/ \E t \in DOMAIN threads, n \in DOMAIN nodes, i \in ThreadKeys :
          Len(hashes) + Pending < MaxThreadNodes /\ Call(t, n, i)
    \/ \E t \in DOMAIN threads : Line165(t)
    \/ \E t \in DOMAIN threads : Line166(t)
    \/ \E t \in DOMAIN threads : Line178(t)
    \/ \E t \in DOMAIN threads : Line179(t)
    \/ \E t \in DOMAIN threads : Line168(t)
    \/ \E t \in DOMAIN threads : Line169(t)
    \/ \E t \in DOMAIN threads : Line170(t)

ThreadSpec == ThreadInit /\ [][ThreadNext]_vars

(***************************************************************************)
(* The canonicalizer called directly, on keys drawn from the numbers in    *)
(* their representations nested in lists and tuples, the other supported   *)
(* types, and lists and tuples of all of these.  No key holds two strings  *)
(* (equal string constants are one object, pickled as a back reference).   *)
(***************************************************************************)
NumberAtoms == {PyInt(3), PyLong(3), PyFloat(3, 1), PyFloat(5, 2)}
OtherAtoms == {PyNone, PyBool(TRUE), PyStr("a"), PyFloat(1, 0), PyFloat(0, 0)}

SeqsOver(S, n) == UNION {[1..m -> S] : m \in 0..n}
ListsAndTuples(S) ==
    {PyList(xs) : xs \in SeqsOver(S, MaxKeyLen)} \cup
    {PyTuple(xs) : xs \in SeqsOver(S, MaxKeyLen)}
RECURSIVE Nested(_)
Nested(d) ==
    IF d = 0 THEN NumberAtoms ELSE NumberAtoms \cup ListsAndTuples(Nested(d - 1))
KeyInputs ==
    {k \in Nested(MaxKeyDepth) \cup OtherAtoms
            \cup ListsAndTuples(NumberAtoms \cup OtherAtoms) : StrCount(k) <= 1}

\* y = pickle_key_massage(k)
pickle_key_massage_call ==
    /\ canon.massaged = <<>>
    /\ canon' = [canon EXCEPT !.massaged = <<pickle_key_massage(canon.k)>>]
    /\ UNCHANGED <<nodes, hashes, prngs, ret, hist, pickle, threads>>

\* pickle_key_massage(y), for the y that the first call returned
pickle_key_massage_again ==
    /\ canon.massaged # <<>> /\ ~IsRaise(canon.massaged[1])
    /\ canon.again = <<>>
    /\ canon' = [canon EXCEPT !.again = <<pickle_key_massage(canon.massaged[1])>>]
    /\ UNCHANGED <<nodes, hashes, prngs, ret, hist, pickle, threads>>

\* pickle_key(k)
pickle_key_call ==
    /\ canon.pickled = <<>>
    /\ canon' = [canon EXCEPT !.pickled = <<pickle_key(canon.k)>>]
    /\ UNCHANGED <<nodes, hashes, prngs, ret, hist, pickle, threads>>

KeyInit ==
    /\ nodes = <<>>
    /\ hashes = <<>>
    /\ prngs = <<>>
    /\ hist = <<>>
    /\ ret = Result("", "", "")
    /\ pickle \in PickleModules
    /\ threads = <<>>
    /\ \E k \in KeyInputs : canon = [NoCall EXCEPT !.k = k]

KeyNext == pickle_key_massage_call \/ pickle_key_massage_again \/ pickle_key_call

KeySpec == KeyInit /\ [][KeyNext]_vars

(***************************************************************************)
(* Properties.                                                             *)
(***************************************************************************)
\* The hash context of node n in the given heaps, by value: <<>> if absent.
Ctx(ns, hs, n) == IF ns[n].hash = None THEN <<>> ELSE <<hs[ns[n].hash]>>

Canonicalizable(i) == pickle_key(i).exc = ""

\* Any call on node m.
OpOn(m) ==
    \/ \E i \in Keys : getitem(m, i)
    \/ \E a \in Attrs : getattr(m, a)
    \/ getstate_call(m) \/ setstate(m) \/ seed(m) \/ jumpahead(m)

RECURSIVE RootOf(_)
RootOf(n) == IF hist[n].parent = 0 THEN n ELSE RootOf(hist[n].parent)

\* C1: a draw (or detach) on a node that is already Spent fails with
\* UsedAfterSpent and returns no value.
C1_SecondDrawFails ==
    [][\A n \in DOMAIN nodes, a \in Attrs :
          (LifecycleState(nodes[n]) = "Spent" /\ ret'.op = a /\ getattr(n, a))
          => (ret'.exc = UsedAfterSpent /\ hist'[n].drawn = hist[n].drawn)]_vars

\* C2: a draw or detach on a Dict node fails with UsedAsDictAfterCommit and
\* leaves the node as it was (still Dict, same hash context, no generator);
\* an index with a canonicalizable key on a Dict node succeeds.
C2_DrawOnDictRefused ==
    [][\A n \in DOMAIN nodes :
          /\ \A a \in Attrs :
                (LifecycleState(nodes[n]) = "Dict" /\ ret'.op = a /\ getattr(n, a))
                => /\ ret'.exc = UsedAsDictAfterCommit
                   /\ nodes' = nodes /\ hashes' = hashes /\ prngs' = prngs
                   /\ LifecycleState(nodes'[n]) = "Dict"
                   /\ Ctx(nodes', hashes', n) # <<>>
                   /\ Ctx(nodes', hashes', n) = Ctx(nodes, hashes, n)
                   /\ hist' = hist
          /\ \A i \in Keys :
                (/\ LifecycleState(nodes[n]) = "Dict" /\ ret'.op = "getitem"
                 /\ Canonicalizable(i) /\ getitem(n, i))
                => /\ ret'.exc = ""
                   /\ Len(nodes') = Len(nodes) + 1
                   /\ hist'[Len(nodes')].parent = n]_vars

\* A detach was refused by a Dict node that has a child.
C2_Witness ==
    /\ ret.op = "sequence" /\ ret.pre = "Dict" /\ ret.exc = UsedAsDictAfterCommit
    /\ \E c \in DOMAIN nodes :
          hist[c].how = "index" /\ LifecycleState(nodes[hist[c].parent]) = "Dict"

\* C3: a draw on an Uncommitted node succeeds, seeds a generator from the
\* digest of the node's hash context, leaves the node Spent with no hash
\* context; a draw on a node in any other state fails.
C3_DrawOnlyFromUncommitted ==
    [][\A n \in DOMAIN nodes, a \in RandomMethods :
          (ret'.op = a /\ getattr(n, a))
          => IF LifecycleState(nodes[n]) = "Uncommitted"
             THEN /\ ret'.exc = ""
                  /\ LifecycleState(nodes'[n]) = "Spent"
                  /\ nodes'[n].hash = None
                  /\ prngs'[nodes'[n].prng].seed = hexdigest(hashes[nodes[n].hash])
                  /\ Len(hist'[n].drawn) = 1
             ELSE ret'.exc # "" /\ hist'[n].drawn = hist[n].drawn]_vars

\* C4: index on a Spent node fails with UsedAfterSpent, creates no node and
\* leaves the node Spent without a hash context.
C4_IndexOnSpentFails ==
    [][\A n \in DOMAIN nodes, i \in Keys :
          (/\ LifecycleState(nodes[n]) = "Spent" /\ ret'.op = "getitem"
           /\ getitem(n, i))
          => /\ ret'.exc = UsedAfterSpent
             /\ nodes' = nodes /\ hashes' = hashes /\ prngs' = prngs
             /\ LifecycleState(nodes'[n]) = "Spent"
             /\ nodes'[n].hash = None]_vars

C4_Witness == ret.op = "getitem" /\ ret.pre = "Spent" /\ ret.exc = UsedAfterSpent

\* C5: index with a canonicalizable key on an Uncommitted or Dict node
\* returns a new Uncommitted node whose context is the parent's extended
\* with the canonical key, in a hash object of its own; the parent is Dict
\* afterwards and its context is what it was.  No call on one node changes
\* the hash context of another.
C5_IndexFrame ==
    [][/\ \A n \in DOMAIN nodes, i \in Keys :
             (/\ LifecycleState(nodes[n]) \in {"Uncommitted", "Dict"}
              /\ ret'.op = "getitem"
              /\ Canonicalizable(i)
              /\ getitem(n, i))
             => LET c == Len(nodes) + 1
                IN  /\ ret'.exc = ""
                    /\ Len(nodes') = c
                    /\ LifecycleState(nodes'[c]) = "Uncommitted"
                    /\ LifecycleState(nodes'[n]) = "Dict"
                    /\ Ctx(nodes', hashes', n) = Ctx(nodes, hashes, n)
                    /\ Ctx(nodes', hashes', c) =
                          <<[name |-> hashes[nodes[n].hash].name,
                             data |-> hashes[nodes[n].hash].data \o pickle_key(i).bytes]>>
                    /\ nodes'[c].hash # nodes'[n].hash
       /\ \A n \in DOMAIN nodes :
             Ctx(nodes', hashes', n) # Ctx(nodes, hashes, n)
             => \A m \in DOMAIN nodes \ {n} : ~OpOn(m)]_vars

\* A child of a Dict parent has been drawn from, and the parent indexed again.
C5_Witness ==
    /\ ret.op = "getitem" /\ ret.exc = "" /\ ret.pre = "Dict"
    /\ \E c \in DOMAIN nodes :
          /\ hist[c].how = "index" /\ hist[c].parent = hist[Len(nodes)].parent
          /\ hist[c].drawn # <<>>

\* C6: nodes reached by the same seed, hash name and keys have the same
\* hash context, the same generator seed and return the same values for the
\* same calls.
C6_Determinism ==
    \A m \in DOMAIN nodes, n \in DOMAIN nodes :
       hist[m].addr = hist[n].addr
       => /\ (nodes[m].hash # None /\ nodes[n].hash # None)
                => Ctx(nodes, hashes, m) = Ctx(nodes, hashes, n)
          /\ (nodes[m].prng # None /\ nodes[n].prng # None)
                => prngs[nodes[m].prng].seed = prngs[nodes[n].prng].seed
          /\ \A j \in 1..Len(hist[m].drawn) :
                (j <= Len(hist[n].drawn)
                 /\ hist[m].drawn[j].calls = hist[n].drawn[j].calls)
                => hist[m].drawn[j] = hist[n].drawn[j]

\* Two trees from the same seed, a node under a key in each, both drawn
\* from, after one tree drew from another address and the other did not.
C6_Witness ==
    \E m \in DOMAIN nodes, n \in DOMAIN nodes, k \in DOMAIN nodes :
       /\ RootOf(m) # RootOf(n) /\ hist[m].addr = hist[n].addr
       /\ Len(hist[m].addr.keys) >= 1
       /\ hist[m].drawn # <<>> /\ hist[n].drawn # <<>>
       /\ RootOf(k) = RootOf(m) /\ hist[k].addr # hist[m].addr
       /\ hist[k].drawn # <<>> /\ k < m

\* The children that have been drawn from, and for one of them, x, those
\* made after x from the same parent under another key and first drawn from
\* after x was.
DrawnChildren == {n \in DOMAIN nodes : hist[n].how = "index" /\ hist[n].drawn # <<>>}
LaterSiblings(x) ==
    {y \in DrawnChildren : /\ hist[y].parent = hist[x].parent
                           /\ hist[y].key # hist[x].key
                           /\ x < y /\ nodes[x].prng < nodes[y].prng}

\* C7: for parents at the same address and keys a # b, children derived and
\* drawn from in the order a, b return the same values as children derived
\* and drawn from in the order b, a.
C7_SiblingOrder ==
    \A x1 \in DrawnChildren : \A y1 \in LaterSiblings(x1) :
    \A y2 \in DrawnChildren : \A x2 \in LaterSiblings(y2) :
       (/\ hist[hist[x1].parent].addr = hist[hist[y2].parent].addr
        /\ hist[x1].key = hist[x2].key /\ hist[y1].key = hist[y2].key)
       => /\ hist[x1].drawn[1] = hist[x2].drawn[1]
          /\ hist[y1].drawn[1] = hist[y2].drawn[1]

\* Under one parent: children for a, b, b, a, made in this order and first
\* drawn from in this order; a and b give different values.
C7_Witness ==
    \E x1 \in DrawnChildren : \E y1 \in LaterSiblings(x1) :
    \E y2 \in DrawnChildren : \E x2 \in LaterSiblings(y2) :
       /\ hist[x1].parent = hist[y2].parent /\ y1 < y2
       /\ hist[x1].key = hist[x2].key /\ hist[y1].key = hist[y2].key
       /\ hist[x1].drawn[1] # hist[y1].drawn[1]

\* C8: every node is Uncommitted, Dict or Spent, never Dict and Spent at
\* once, and has a hash context exactly when it is not Spent.
C8_NodeInvariant ==
    \A n \in DOMAIN nodes :
       /\ LifecycleState(nodes[n]) \in {"Uncommitted", "Dict", "Spent"}
       /\ ~(nodes[n].is_dict /\ nodes[n].prng # None)
       /\ (nodes[n].hash # None) <=> (LifecycleState(nodes[n]) # "Spent")
       /\ nodes[n].hash # None => nodes[n].hash \in DOMAIN hashes
       /\ nodes[n].prng # None => nodes[n].prng \in DOMAIN prngs

\* All three states at once, one of the nodes made from a saved state,
\* after a construction from the saved state of a Spent node.
C8_Witness ==
    /\ \E n \in DOMAIN nodes : LifecycleState(nodes[n]) = "Dict"
    /\ \E n \in DOMAIN nodes : LifecycleState(nodes[n]) = "Spent"
    /\ \E n \in DOMAIN nodes :
          LifecycleState(nodes[n]) = "Uncommitted" /\ hist[n].how = "state"
    /\ ret.op = "TreePRNG(state)" /\ ret.exc = "AttributeError"

\* C9: a Spent node stays Spent without a hash context; a Dict node stays
\* Dict, and index on it raises no life-cycle error and succeeds for a
\* canonicalizable key; a node changes state only from Uncommitted, to Dict
\* or to Spent.
C9_OneWay ==
    [][\A n \in DOMAIN nodes :
          /\ LifecycleState(nodes[n]) = "Spent"
                => LifecycleState(nodes'[n]) = "Spent" /\ nodes'[n].hash = None
          /\ LifecycleState(nodes[n]) = "Dict"
                => LifecycleState(nodes'[n]) = "Dict"
          /\ LifecycleState(nodes'[n]) # LifecycleState(nodes[n])
                => /\ LifecycleState(nodes[n]) = "Uncommitted"
                   /\ LifecycleState(nodes'[n]) \in {"Dict", "Spent"}
          /\ \A i \in Keys :
                (/\ LifecycleState(nodes[n]) = "Dict" /\ ret'.op = "getitem"
                 /\ getitem(n, i))
                => /\ ret'.exc \notin {UsedAfterSpent, UsedAsDictAfterCommit}
                   /\ Canonicalizable(i) => ret'.exc = ""]_vars

\* A Dict node indexed again, next to a Spent node drawn from repeatedly.
C9_Witness ==
    /\ ret.op = "getitem" /\ ret.pre = "Dict" /\ ret.exc = ""
    /\ \E n \in DOMAIN nodes : LifecycleState(nodes[n]) = "Dict"
    /\ \E n \in DOMAIN nodes :
          LifecycleState(nodes[n]) = "Spent" /\ Len(hist[n].drawn) = MaxDraws

\* C10: seed, jumpahead and setstate raise NotImplementedError on a node in
\* any state and change nothing of the node, its hash context or any
\* generator.
C10_Disabled ==
    [][\A n \in DOMAIN nodes :
          (setstate(n) \/ seed(n) \/ jumpahead(n))
          => /\ ret'.exc = UnsupportedOperation
             /\ nodes' = nodes /\ hashes' = hashes /\ prngs' = prngs
             /\ LifecycleState(nodes'[n]) = LifecycleState(nodes[n])]_vars

C10_Witness ==
    /\ ret.op = "seed" /\ ret.pre = "Uncommitted" /\ ret.exc = UnsupportedOperation
    /\ \E n \in DOMAIN nodes : LifecycleState(nodes[n]) = "Uncommitted"

\* C11: getstate on a node fails with UnsupportedOperation in every
\* life-cycle state.
C11_GetstateFails ==
    [][\A n \in DOMAIN nodes :
          (ret'.op = "getstate" /\ getstate_call(n))
          => ret'.exc = UnsupportedOperation]_vars

\* C11, amended: getstate on a node in any life-cycle state returns, and
\* changes nothing; the tuple is (None, generator state, False) for a Spent
\* node and (hash object, None, is_dict) otherwise.
C11_GetstateReturns ==
    [][\A n \in DOMAIN nodes :
          (ret'.op = "getstate" /\ getstate_call(n))
          => /\ ret'.exc = ""
             /\ nodes' = nodes /\ hashes' = hashes /\ prngs' = prngs
             /\ LET t == getstate(nodes[n])
                IN  IF LifecycleState(nodes[n]) = "Spent"
                    THEN /\ t.hash = None /\ ~t.is_dict
                         /\ t.prng_state = <<prngs[nodes[n].prng]>>
                    ELSE /\ t.hash = nodes[n].hash /\ t.hash # None
                         /\ t.prng_state = <<>>
                         /\ t.is_dict = nodes[n].is_dict]_vars

\* getstate has returned on a Spent node, next to a Dict node.
C11_Witness ==
    /\ ret.op = "getstate" /\ ret.pre = "Spent" /\ ret.exc = ""
    /\ \E n \in DOMAIN nodes : LifecycleState(nodes[n]) = "Dict"

\* C12: sequence() on an Uncommitted node returns (a generator seeded from
\* the digest of the node's hash context) and leaves the node Spent.
C12_SequenceReturns ==
    [][\A n \in DOMAIN nodes :
          (/\ LifecycleState(nodes[n]) = "Uncommitted" /\ ret'.op = "sequence"
           /\ getattr(n, "sequence"))
          => /\ ret'.exc = ""
             /\ LifecycleState(nodes'[n]) = "Spent"
             /\ prngs'[nodes'[n].prng].seed = hexdigest(hashes[nodes[n].hash])]_vars

\* C15: on the generators of two nodes at the same address, the bits of a
\* draw of k1 bits followed by the bits of a draw of k2 bits are the bits of
\* one draw of k1 + k2 bits.
C15_SplitEquivalence ==
    \A m \in DOMAIN nodes, n \in DOMAIN nodes :
       (/\ hist[m].addr = hist[n].addr
        /\ Len(hist[m].drawn) >= 2 /\ Len(hist[n].drawn) >= 1
        /\ hist[n].drawn[1].k = hist[m].drawn[1].k + hist[m].drawn[2].k)
       => hist[n].drawn[1].bits = hist[m].drawn[1].bits \o hist[m].drawn[2].bits

\* C16: a call of __getitem__ that began on a Dict node, whatever other
\* calls of __getitem__ other threads are making on that node, changes
\* neither the node nor its hash context at any step, raises only what
\* pickle_key raises on its key, and returns an Uncommitted node whose
\* context is the parent's extended with the encoding of its own key.
C16_ConcurrentIndex ==
    [][\A t \in DOMAIN threads :
          (threads[t].pre = "Dict" /\ ThreadStep(t))
          => LET n == threads[t].n
                 i == threads[t].i
             IN  /\ nodes'[n] = nodes[n]
                 /\ LifecycleState(nodes'[n]) = "Dict"
                 /\ Ctx(nodes', hashes', n) = Ctx(nodes, hashes, n)
                 /\ threads'[t].exc \in {"", pickle_key(i).exc}
                 /\ Canonicalizable(i) => threads'[t].exc = ""
                 /\ Line170(t)
                       => LET c == threads'[t].child
                          IN  /\ c = Len(nodes) + 1 /\ Len(nodes') = c
                              /\ LifecycleState(nodes'[c]) = "Uncommitted"
                              /\ nodes'[c].hash # nodes'[n].hash
                              /\ Ctx(nodes', hashes', c) =
                                    <<[name |-> hashes[nodes[n].hash].name,
                                       data |-> hashes[nodes[n].hash].data
                                                \o pickle_key(i).bytes]>>]_vars

\* Two calls that began on the same Dict node with different keys are both
\* past the copy of the hash, one of them already past its update, and an
\* earlier call has returned.
C16_Witness ==
    /\ threads[1].pre = "Dict" /\ threads[2].pre = "Dict"
    /\ threads[1].n = threads[2].n /\ threads[1].i # threads[2].i
    /\ threads[1].pc = "169" /\ threads[2].pc = "170"
    /\ \E c \in DOMAIN nodes : hist[c].how = "index" /\ hist[c].parent = threads[1].n

\* C17: a call on a node that ends in an exception leaves the life-cycle
\* state and the hash context of the node as they were.
C17_NoPartialFailure ==
    [][\A n \in DOMAIN nodes :
          (ret'.exc # "" /\ OpOn(n))
          => /\ LifecycleState(nodes'[n]) = LifecycleState(nodes[n])
             /\ Ctx(nodes', hashes', n) = Ctx(nodes, hashes, n)]_vars

\* The key k with every integer-valued number in it, at any depth, written
\* as an int, a long or a float.
RECURSIVE NumbersAs(_, _)
NumbersAs(k, type) ==
    IF k.type \in {"list", "tuple"}
    THEN [k EXCEPT !.items = [j \in 1..Len(k.items) |-> NumbersAs(k.items[j], type)]]
    ELSE IF k.type \in {"int", "long", "float"} /\ k.den = 1
    THEN [k EXCEPT !.type = type]
    ELSE k

NumberTypes == {"int", "long", "float"}

\* C13: a key and the same key with its integer-valued numbers in another
\* representation (int, long, float), at any depth in lists and tuples,
\* have the same encoding.
C13_Equivalence ==
    canon.pickled # <<>>
    => \A t \in NumberTypes : pickle_key(NumbersAs(canon.k, t)) = canon.pickled[1]

\* C14: pickle_key_massage applied to a key it has returned returns it
\* unchanged.
C14_Idempotent ==
    canon.again # <<>> => canon.again[1] = canon.massaged[1]

\* A list or tuple nested in another, in which a number was massaged, has
\* been massaged twice.
C14_Witness ==
    /\ canon.again # <<>>
    /\ canon.massaged[1] # canon.k
    /\ \E j \in DOMAIN canon.k.items :
          /\ canon.k.items[j].type \in {"list", "tuple"}
          /\ canon.massaged[1].items[j] # canon.k.items[j]

\* C18: pickle_key_massage of a list or tuple (whose elements it accepts)
\* returns a sequence of the same type and length whose i-th element is
\* pickle_key_massage of the i-th element of the input, so that at every
\* depth exactly the integer-valued numbers have become ints; the input is
\* as it was; a list and a tuple of the same elements encode differently.
C18_ElementWise ==
    [][(/\ pickle_key_massage_call
        /\ canon.k.type \in {"list", "tuple"}
        /\ ~IsRaise(canon'.massaged[1]))
       => LET k == canon.k
              y == canon'.massaged[1]
              other == [k EXCEPT !.type = IF @ = "list" THEN "tuple" ELSE "list"]
          IN  /\ canon'.k = k
              /\ y.type = k.type
              /\ Len(y.items) = Len(k.items)
              /\ \A j \in DOMAIN k.items : y.items[j] = pickle_key_massage(k.items[j])
              /\ y = NumbersAs(k, "int")
              /\ pickle_key(other).bytes # pickle_key(k).bytes]_vars

\* Massaged: a sequence whose first element needed no change, whose second
\* is a nested sequence that did.
C18_Witness ==
    /\ canon.massaged # <<>> /\ ~IsRaise(canon.massaged[1])
    /\ canon.k.type \in {"list", "tuple"} /\ Len(canon.k.items) = 2
    /\ canon.massaged[1].items[1] = canon.k.items[1]
    /\ canon.k.items[2].type \in {"list", "tuple"}
    /\ canon.massaged[1].items[2] # canon.k.items[2]

\* C19: pickle_key_massage and pickle_key return, on every key that is
\* None, a bool, a str, an int, a long, a float (inf and nan included) or a
\* nested list or tuple of these.
C19_Total ==
    /\ canon.massaged # <<>> => ~IsRaise(canon.massaged[1])
    /\ canon.pickled # <<>> => canon.pickled[1].exc = ""

\* C20: for a node n in any life-cycle state, TreePRNG(None,
\* state=n.getstate()) returns a node in the same life-cycle state, with the
\* same hash context if n is not Spent and the same generator state if it
\* is; n is unchanged.
C20_StateRoundTrip ==
    [][\A n \in DOMAIN nodes :
          (ret'.op = "TreePRNG(state)" /\ TreePRNGFromState(n))
          => LET c == Len(nodes) + 1
             IN  /\ ret'.exc = ""
                 /\ Len(nodes') = c
                 /\ nodes'[n] = nodes[n]
                 /\ LifecycleState(nodes'[c]) = LifecycleState(nodes[n])
                 /\ LifecycleState(nodes[n]) # "Spent"
                       => Ctx(nodes', hashes', c) = Ctx(nodes, hashes, n)
                 /\ LifecycleState(nodes[n]) = "Spent"
                       => prngs'[nodes'[c].prng] = prngs[nodes[n].prng]]_vars

====
